---- MODULE Spec2Model ----
(***************************************************************************)
(* Model of net/gclient/gclient_tracer_metrics.go: the metrics tracer that *)
(* wraps an httptrace.ClientTrace, keeps the open-connections gauge and    *)
(* the connect-duration histogram, and forwards every hook to the wrapped  *)
(* (delegate) tracer.                                                      *)
(*                                                                         *)
(* Five specifications share the hooks:                                    *)
(*   Spec             the sixteen hooks called with arbitrary arguments on *)
(*                    tracers whose delegate has every hook set;           *)
(*   SpecAnyDelegate  the same calls, the delegate being fully populated,  *)
(*                    partly populated, empty or a nil pointer;            *)
(*   SpecLife         GotConn / PutIdleConn as net/http's transport emits  *)
(*                    them over the life of pooled connections;            *)
(*   SpecAnyInstrument the calls of Spec, each metric instrument handle    *)
(*                    being set or nil;                                    *)
(*   SpecConnect      ConnectStart / ConnectDone calls of dial attempts,   *)
(*                    with the clock advancing between them.               *)
(***************************************************************************)
EXTENDS Integers, Sequences, FiniteSets, TLC

\* ---------------------------------------------------------------- bounds
NTracers == 2
NConns == 2
MaxSteps == 2
MaxLifeSteps == 4
MaxConnectSteps == 4
MaxNow == 1200000

Tracers == 1 .. NTracers
Conns == 1 .. NConns

\* ------------------------------------------------------- program constants
connectionStateActive == "active"
connectionStateIdle == "idle"
ConnectionStates == {connectionStateActive, connectionStateIdle}

\* (*gtime.Time)(nil): the zero value of the ConnectStartTime field
NilTime == -1

\* time.Duration counts nanoseconds; Duration.Milliseconds() divides by 1e6
NanosPerMilli == 1000000

\* ------------------------------------------------------------ input domains
AttrMaps == {"GET example.com", "POST example.org"}
PresetAddrs == {"", "9.9.9.9:80"}
Addrs == {"1.2.3.4:443", "[::1]:443"}
Networks == {"tcp"}
HostPorts == {"example.com:443"}
NoErr == "nil"
Errs == {NoErr, "refused", "canceled"}
Void == "void"
TickSet == {600000}

Hooks ==
    {"GetConn", "GotConn", "PutIdleConn", "GotFirstResponseByte",
     "Got100Continue", "Got1xxResponse", "DNSStart", "DNSDone",
     "ConnectStart", "ConnectDone", "TLSHandshakeStart", "TLSHandshakeDone",
     "WroteHeaderField", "WroteHeaders", "Wait100Continue", "WroteRequest"}

\* The delegate handed to newClientTracerMetrics: a *httptrace.ClientTrace
\* that is nil, or a struct whose hook fields are each set or nil.
NilTrace == "nil"
DelegateKinds == {"full", "partial", "empty", NilTrace}

SetHooks(base) ==
    CASE base = "full" -> Hooks
      [] base = "partial" -> {"GotConn", "ConnectDone"}
      [] OTHER -> {}

\* Calling ct.ClientTrace.X(...): a nil embedded pointer or a nil func field
\* is a run-time panic; otherwise the delegate's hook runs.
Callable(base, hook) == base # NilTrace /\ hook \in SetHooks(base)

VARIABLES
    ct,        \* ct[t]: the clientTracerMetrics of request t
    gauge,     \* HttpClientOpenConnections: gauge[attrMap][state]
    hist,      \* HttpClientConnectionDuration: hist[attrMap], observations in order
    now,       \* the wall clock read by gtime.Now(), in nanoseconds
    last,      \* the most recent hook call and what the delegate saw of it
    steps,     \* number of hook calls made
    nDone,     \* nDone[t]: ConnectDone calls received by tracer t
    panicked,  \* a hook call ended in a run-time panic
    conn,      \* transport: state of each pooled connection
    holder,    \* transport: the connection request t currently uses (0: none)
    instruments, \* metricManager: which instrument handles are non-nil
    startAt,   \* startAt[t][addr]: time of the last ConnectStart for addr (NilTime: none)
    tally      \* tally[t][class]: GotConn / PutIdleConn calls received, by kind

vars == <<ct, gauge, hist, now, last, steps, nDone, panicked, conn, holder,
          instruments, startAt, tally>>

\* ------------------------------------------------- metric manager (external)
\* mutation: the labels follow the request's RemoteAddr once it is filled
GetMetricAttributeMapByAddr(request) ==
    IF request.RemoteAddr = "" THEN request.attrs
    ELSE CHOOSE a \in AttrMaps : a # request.attrs

GetMetricAttributeMap(request) == request.attrs

GetMetricOptionForOpenConnectionsByMap(state, attrMap) ==
    [attrs |-> attrMap, state |-> state]

GetMetricOptionForConnectionDuration(request) ==
    [attrs |-> GetMetricAttributeMap(request)]

\* UpDownCounter.Add(ctx, delta, option)
Add(g, delta, option) ==
    [g EXCEPT ![option.attrs][option.state] = @ + delta]

\* Histogram.Record(value, option)
Record(h, value, option) ==
    [h EXCEPT ![option.attrs] = Append(@, value)]

\* gtime.Time.Sub followed by Duration.Milliseconds(): a nil operand gives 0
Sub(t, u) == IF t = NilTime \/ u = NilTime THEN 0 ELSE t - u

Milliseconds(d) == d \div NanosPerMilli

\* ------------------------------------------------------------- constructor
newClientTracerMetrics(request, baseClientTracer) ==
    [Request |-> request,
     ClientTrace |-> baseClientTracer,
     ConnectStartTime |-> NilTime]

Requests == [attrs : AttrMaps, RemoteAddr : PresetAddrs]

\* What an observer can see of the tracer's bookkeeping for request t.
\* fault: the method stopped in a run-time panic before it left this state.
State(g, h, addr, start) ==
    [gauge |-> g, hist |-> h, RemoteAddr |-> addr, ConnectStartTime |-> start,
     fault |-> FALSE]

Cur(t) == State(gauge, hist, ct[t].Request.RemoteAddr, ct[t].ConnectStartTime)

\* A method call on a nil instrument interface: the hook panics there.
Fault(t) == [Cur(t) EXCEPT !.fault = TRUE]

\* The kinds of GotConn / PutIdleConn calls the gauges tell apart.
TallyClasses == {"new", "newIdle", "reused", "putOk", "putFail"}

TallyClass(hook, args) ==
    CASE hook = "GotConn" ->
            IF args.Reused THEN "reused"
            ELSE IF args.WasIdle THEN "newIdle" ELSE "new"
      [] hook = "PutIdleConn" ->
            IF args.err = NoErr THEN "putOk" ELSE "putFail"
      [] OTHER -> "other"

AllInstruments ==
    [HttpClientOpenConnections |-> TRUE, HttpClientConnectionDuration |-> TRUE]

InitWith(bases, handles) ==
    /\ instruments \in handles
    /\ startAt = [t \in Tracers |-> [a \in Addrs |-> NilTime]]
    /\ tally = [t \in Tracers |-> [k \in TallyClasses |-> 0]]
    /\ \E base \in bases :
          ct \in {f \in [Tracers -> [Request : Requests,
                                     ClientTrace : {base},
                                     ConnectStartTime : {NilTime}]] :
                    \A t \in Tracers :
                       f[t] = newClientTracerMetrics(f[t].Request, base)}
    /\ gauge = [a \in AttrMaps |-> [s \in ConnectionStates |-> 0]]
    /\ hist = [a \in AttrMaps |-> <<>>]
    /\ now = 0
    /\ last = [t |-> 0, hook |-> "none", args |-> [none |-> TRUE],
               dhook |-> "none", dcount |-> 0, dargs |-> [none |-> TRUE],
               dret |-> Void, ret |-> Void,
               seen |-> State(gauge, hist, "", NilTime)]
    /\ steps = 0
    /\ nDone = [t \in Tracers |-> 0]
    /\ panicked = FALSE
    /\ conn = [c \in Conns |-> "none"]
    /\ holder = [t \in Tracers |-> 0]

Init == InitWith({"full"}, {AllInstruments})

InitAnyDelegate == InitWith(DelegateKinds, {AllInstruments})

InitAnyInstrument ==
    InitWith({"full"}, [HttpClientOpenConnections : BOOLEAN,
                        HttpClientConnectionDuration : BOOLEAN])

\* ---------------------------------------------------------------- one hook
\* One call of entry point `hook` on tracer t with arguments args.  post is
\* the bookkeeping state the method leaves, seen the bookkeeping state at
\* the moment it calls the delegate's dhook with dargs; dret is what the
\* delegate returns and ret what the method returns.
Hook(t, hook, args, post, seen, dhook, dargs, dret, ret) ==
    /\ ~panicked
    /\ gauge' = post.gauge
    /\ hist' = post.hist
    /\ ct' = [ct EXCEPT ![t].Request.RemoteAddr = post.RemoteAddr,
                        ![t].ConnectStartTime = post.ConnectStartTime]
    /\ LET ok == ~post.fault /\ Callable(ct[t].ClientTrace, dhook)
       IN /\ panicked' = ~ok
          /\ last' = [t |-> t, hook |-> hook, args |-> args,
                      dhook |-> IF ok THEN dhook ELSE "none",
                      dcount |-> IF ok THEN 1 ELSE 0,
                      dargs |-> IF ok THEN dargs ELSE [none |-> TRUE],
                      dret |-> IF ok THEN dret ELSE Void,
                      ret |-> IF ok THEN ret ELSE Void,
                      seen |-> seen]
    /\ steps' = steps + 1
    /\ nDone' = IF hook = "ConnectDone" THEN [nDone EXCEPT ![t] = @ + 1] ELSE nDone
    /\ startAt' = IF hook = "ConnectStart"
                  THEN [startAt EXCEPT ![t][args.addr] = now]
                  ELSE startAt
    /\ tally' = IF TallyClass(hook, args) \in TallyClasses
                THEN [tally EXCEPT ![t][TallyClass(hook, args)] = @ + 1]
                ELSE tally
    /\ now' = now
    /\ instruments' = instruments

\* ------------------------------------------------- hooks with bookkeeping
GotConnInfos == [Reused : BOOLEAN, WasIdle : BOOLEAN]

\* mutation: the idle gauge is not lowered for a connection that was idle
GotConnBookkeepingNoIdleDec(t, info) ==
    IF ~info.Reused
    THEN [Cur(t) EXCEPT !.gauge =
            Add(gauge, 1,
                GetMetricOptionForOpenConnectionsByMap(
                    connectionStateActive, GetMetricAttributeMap(ct[t].Request)))]
    ELSE Cur(t)

\* mutation: the Reused flag is not tested
GotConnBookkeepingIgnoreReused(t, info) ==
    LET attrMap == GetMetricAttributeMap(ct[t].Request)
        g1 == Add(gauge, 1,
                  GetMetricOptionForOpenConnectionsByMap(connectionStateActive, attrMap))
        g2 == IF info.WasIdle
              THEN Add(g1, -1,
                       GetMetricOptionForOpenConnectionsByMap(connectionStateIdle, attrMap))
              ELSE g1
    IN [Cur(t) EXCEPT !.gauge = g2]

GotConnBookkeeping(t, info) ==
    IF ~info.Reused
    THEN IF ~instruments.HttpClientOpenConnections THEN Fault(t) ELSE
         LET attrMap == GetMetricAttributeMap(ct[t].Request)
             g1 == Add(gauge, 1,
                       GetMetricOptionForOpenConnectionsByMap(connectionStateActive, attrMap))
             g2 == IF info.WasIdle
                   THEN Add(g1, -1,
                            GetMetricOptionForOpenConnectionsByMap(connectionStateIdle, attrMap))
                   ELSE g1
         IN [Cur(t) EXCEPT !.gauge = g2]
    ELSE Cur(t)

\* mutation: the delegate is called before the bookkeeping
GotConnDelegateFirst(t, info) ==
    LET post == GotConnBookkeeping(t, info)
    IN Hook(t, "GotConn", info, post, Cur(t), "GotConn", info, Void, Void)

GotConn(t, info) ==
    LET post == GotConnBookkeeping(t, info)
    IN Hook(t, "GotConn", info, post, post, "GotConn", info, Void, Void)

\* mutation: the idle gauge is raised whatever err is
PutIdleConnBookkeepingAlwaysIdle(t, err) ==
    LET attrMap == GetMetricAttributeMap(ct[t].Request)
        g1 == Add(gauge, -1,
                  GetMetricOptionForOpenConnectionsByMap(connectionStateActive, attrMap))
        g2 == Add(g1, 1,
                  GetMetricOptionForOpenConnectionsByMap(connectionStateIdle, attrMap))
    IN [Cur(t) EXCEPT !.gauge = g2]

\* mutation: every request reports under one shared label set
PutIdleConnBookkeepingSharedLabels(t, err) ==
    LET attrMap == CHOOSE a \in AttrMaps : TRUE
        g1 == Add(gauge, -1,
                  GetMetricOptionForOpenConnectionsByMap(connectionStateActive, attrMap))
        g2 == IF err = NoErr
              THEN Add(g1, 1,
                       GetMetricOptionForOpenConnectionsByMap(connectionStateIdle, attrMap))
              ELSE g1
    IN [Cur(t) EXCEPT !.gauge = g2]

PutIdleConnBookkeeping(t, err) ==
    IF ~instruments.HttpClientOpenConnections THEN Fault(t) ELSE
    LET attrMap == GetMetricAttributeMap(ct[t].Request)
        g1 == Add(gauge, -1,
                  GetMetricOptionForOpenConnectionsByMap(connectionStateActive, attrMap))
        g2 == IF err = NoErr
              THEN Add(g1, 1,
                       GetMetricOptionForOpenConnectionsByMap(connectionStateIdle, attrMap))
              ELSE g1
    IN [Cur(t) EXCEPT !.gauge = g2]

PutIdleConn(t, err) ==
    LET post == PutIdleConnBookkeeping(t, err)
        args == [err |-> err]
    IN Hook(t, "PutIdleConn", args, post, post, "PutIdleConn", args, Void, Void)

\* mutation: RemoteAddr is written without testing that it is empty
ConnectStartBookkeepingOverwrite(t, network, addr) ==
    [Cur(t) EXCEPT !.RemoteAddr = addr, !.ConnectStartTime = now]

\* mutation: the timestamp of the first dial attempt is kept
ConnectStartBookkeepingKeepFirst(t, network, addr) ==
    LET a == IF ct[t].Request.RemoteAddr = "" THEN addr ELSE ct[t].Request.RemoteAddr
        s == IF ct[t].ConnectStartTime = NilTime THEN now ELSE ct[t].ConnectStartTime
    IN [Cur(t) EXCEPT !.RemoteAddr = a, !.ConnectStartTime = s]

ConnectStartBookkeeping(t, network, addr) ==
    LET a == IF ct[t].Request.RemoteAddr = "" THEN addr ELSE ct[t].Request.RemoteAddr
    IN [Cur(t) EXCEPT !.RemoteAddr = a, !.ConnectStartTime = now]

ConnectStart(t, network, addr) ==
    LET post == ConnectStartBookkeeping(t, network, addr)
        args == [network |-> network, addr |-> addr]
    IN Hook(t, "ConnectStart", args, post, post, "ConnectStart", args, Void, Void)

\* mutation: a failed dial is not recorded
ConnectDoneBookkeepingSkipErr(t, network, addr, err) ==
    IF err = NoErr
    THEN [Cur(t) EXCEPT !.hist =
            Record(hist, Milliseconds(Sub(now, ct[t].ConnectStartTime)),
                   GetMetricOptionForConnectionDuration(ct[t].Request))]
    ELSE Cur(t)

\* mutation: the timestamp is cleared once the duration is recorded
ConnectDoneBookkeepingClear(t, network, addr, err) ==
    LET value == Milliseconds(Sub(now, ct[t].ConnectStartTime))
        h1 == Record(hist, value, GetMetricOptionForConnectionDuration(ct[t].Request))
    IN [Cur(t) EXCEPT !.hist = h1, !.ConnectStartTime = NilTime]

ConnectDoneBookkeeping(t, network, addr, err) ==
    IF ~instruments.HttpClientConnectionDuration THEN Fault(t) ELSE
    LET value == Milliseconds(Sub(now, ct[t].ConnectStartTime))
        h1 == Record(hist, value, GetMetricOptionForConnectionDuration(ct[t].Request))
    IN [Cur(t) EXCEPT !.hist = h1]

ConnectDone(t, network, addr, err) ==
    LET post == ConnectDoneBookkeeping(t, network, addr, err)
        args == [network |-> network, addr |-> addr, err |-> err]
    IN Hook(t, "ConnectDone", args, post, post, "ConnectDone", args, Void, Void)

\* ------------------------------------------------------ forwarding-only hooks
GetConn(t, hostPort) ==
    LET args == [hostPort |-> hostPort]
    IN Hook(t, "GetConn", args, Cur(t), Cur(t), "GetConn", args, Void, Void)

GotFirstResponseByte(t) ==
    LET args == [none |-> FALSE]
    IN Hook(t, "GotFirstResponseByte", args, Cur(t), Cur(t),
            "GotFirstResponseByte", args, Void, Void)

Got100Continue(t) ==
    LET args == [none |-> FALSE]
    IN Hook(t, "Got100Continue", args, Cur(t), Cur(t), "Got100Continue", args, Void, Void)

\* mutation: the delegate's error is swallowed
Got1xxResponseSwallow(t, code, header, dret) ==
    LET args == [code |-> code, header |-> header]
    IN Hook(t, "Got1xxResponse", args, Cur(t), Cur(t), "Got1xxResponse", args, dret, NoErr)

\* dret: the error the delegate's Got1xxResponse returns
Got1xxResponse(t, code, header, dret) ==
    LET args == [code |-> code, header |-> header]
    IN Hook(t, "Got1xxResponse", args, Cur(t), Cur(t), "Got1xxResponse", args, dret, dret)

DNSStart(t, info) ==
    Hook(t, "DNSStart", info, Cur(t), Cur(t), "DNSStart", info, Void, Void)

DNSDone(t, info) ==
    Hook(t, "DNSDone", info, Cur(t), Cur(t), "DNSDone", info, Void, Void)

TLSHandshakeStart(t) ==
    LET args == [none |-> FALSE]
    IN Hook(t, "TLSHandshakeStart", args, Cur(t), Cur(t), "TLSHandshakeStart", args, Void, Void)

TLSHandshakeDone(t, state, err) ==
    LET args == [state |-> state, err |-> err]
    IN Hook(t, "TLSHandshakeDone", args, Cur(t), Cur(t), "TLSHandshakeDone", args, Void, Void)

WroteHeaderField(t, key, value) ==
    LET args == [key |-> key, value |-> value]
    IN Hook(t, "WroteHeaderField", args, Cur(t), Cur(t), "WroteHeaderField", args, Void, Void)

WroteHeaders(t) ==
    LET args == [none |-> FALSE]
    IN Hook(t, "WroteHeaders", args, Cur(t), Cur(t), "WroteHeaders", args, Void, Void)

Wait100Continue(t) ==
    LET args == [none |-> FALSE]
    IN Hook(t, "Wait100Continue", args, Cur(t), Cur(t), "Wait100Continue", args, Void, Void)

\* mutation: every written request is counted as a connection in use
WroteRequestCounting(t, info) ==
    LET post == [Cur(t) EXCEPT !.gauge =
                    Add(gauge, 1,
                        GetMetricOptionForOpenConnectionsByMap(
                            connectionStateActive, GetMetricAttributeMap(ct[t].Request)))]
    IN Hook(t, "WroteRequest", info, post, post, "WroteRequest", info, Void, Void)

WroteRequest(t, info) ==
    Hook(t, "WroteRequest", info, Cur(t), Cur(t), "WroteRequest", info, Void, Void)

\* -------------------------------------- the transport calling single hooks
pool == <<conn, holder>>

TraceGetConn == \E t \in Tracers, hostPort \in HostPorts :
    steps < MaxSteps /\ GetConn(t, hostPort) /\ UNCHANGED pool

TraceGotConn == \E t \in Tracers, info \in GotConnInfos :
    steps < MaxSteps /\ GotConn(t, info) /\ UNCHANGED pool

TracePutIdleConn == \E t \in Tracers, err \in {NoErr, "refused"} :
    steps < MaxSteps /\ PutIdleConn(t, err) /\ UNCHANGED pool

TraceGotFirstResponseByte == \E t \in Tracers :
    steps < MaxSteps /\ GotFirstResponseByte(t) /\ UNCHANGED pool

TraceGot100Continue == \E t \in Tracers :
    steps < MaxSteps /\ Got100Continue(t) /\ UNCHANGED pool

TraceGot1xxResponse == \E t \in Tracers, code \in {103}, dret \in {NoErr, "refused"} :
    steps < MaxSteps /\ Got1xxResponse(t, code, <<"Link">>, dret) /\ UNCHANGED pool

TraceDNSStart == \E t \in Tracers :
    steps < MaxSteps /\ DNSStart(t, [Host |-> "example.com"]) /\ UNCHANGED pool

TraceDNSDone == \E t \in Tracers, err \in {NoErr} :
    steps < MaxSteps /\ DNSDone(t, [Addrs |-> <<"1.2.3.4">>, Err |-> err, Coalesced |-> FALSE]) /\ UNCHANGED pool

TraceConnectStart == \E t \in Tracers, network \in Networks, addr \in Addrs :
    steps < MaxSteps /\ ConnectStart(t, network, addr) /\ UNCHANGED pool

TraceConnectDone == \E t \in Tracers, network \in Networks, addr \in Addrs, err \in Errs :
    steps < MaxSteps /\ ConnectDone(t, network, addr, err) /\ UNCHANGED pool

TraceTLSHandshakeStart == \E t \in Tracers :
    steps < MaxSteps /\ TLSHandshakeStart(t) /\ UNCHANGED pool

TraceTLSHandshakeDone == \E t \in Tracers, err \in {NoErr} :
    steps < MaxSteps /\ TLSHandshakeDone(t, "tls13", err) /\ UNCHANGED pool

TraceWroteHeaderField == \E t \in Tracers :
    steps < MaxSteps /\ WroteHeaderField(t, "Host", <<"example.com">>) /\ UNCHANGED pool

TraceWroteHeaders == \E t \in Tracers :
    steps < MaxSteps /\ WroteHeaders(t) /\ UNCHANGED pool

TraceWait100Continue == \E t \in Tracers :
    steps < MaxSteps /\ Wait100Continue(t) /\ UNCHANGED pool

TraceWroteRequest == \E t \in Tracers, err \in {NoErr} :
    steps < MaxSteps /\ WroteRequest(t, [Err |-> err]) /\ UNCHANGED pool

\* gtime.Now() advances between hook calls
Tick == \E d \in TickSet :
    /\ now + d <= MaxNow
    /\ now' = now + d
    /\ UNCHANGED <<ct, gauge, hist, last, steps, nDone, panicked, conn, holder,
                   instruments, startAt, tally>>

Next ==
    \/ TraceGetConn
    \/ TraceGotConn
    \/ TracePutIdleConn
    \/ TraceGotFirstResponseByte
    \/ TraceGot100Continue
    \/ TraceGot1xxResponse
    \/ TraceDNSStart
    \/ TraceDNSDone
    \/ TraceConnectStart
    \/ TraceConnectDone
    \/ TraceTLSHandshakeStart
    \/ TraceTLSHandshakeDone
    \/ TraceWroteHeaderField
    \/ TraceWroteHeaders
    \/ TraceWait100Continue
    \/ TraceWroteRequest
    \/ Tick

Spec == Init /\ [][Next]_vars

SpecAnyDelegate == InitAnyDelegate /\ [][Next]_vars

SpecAnyInstrument == InitAnyInstrument /\ [][Next]_vars

\* ------------------------------- the transport over a connection's life
\* A request without a connection dials a new one: GotConn reports it as
\* neither reused nor idle.
DialConn == \E t \in Tracers, c \in Conns :
    /\ steps < MaxLifeSteps
    /\ holder[t] = 0
    /\ conn[c] = "none"
    /\ GotConn(t, [Reused |-> FALSE, WasIdle |-> FALSE])
    /\ conn' = [conn EXCEPT ![c] = "active"]
    /\ holder' = [holder EXCEPT ![t] = c]

\* A request takes a connection out of the idle pool: every pooled
\* connection has served a request, so GotConn reports Reused and WasIdle.
TakeIdleConn == \E t \in Tracers, c \in Conns :
    /\ steps < MaxLifeSteps
    /\ holder[t] = 0
    /\ conn[c] = "idle"
    /\ GotConn(t, [Reused |-> TRUE, WasIdle |-> TRUE])
    /\ conn' = [conn EXCEPT ![c] = "active"]
    /\ holder' = [holder EXCEPT ![t] = c]

\* The request is done with its connection: PutIdleConn(nil) when the pool
\* accepted it, PutIdleConn(err) when it did not and the connection closes.
ReturnConn == \E t \in Tracers, err \in {NoErr, "refused"} :
    /\ steps < MaxLifeSteps
    /\ holder[t] # 0
    /\ PutIdleConn(t, err)
    /\ conn' = [conn EXCEPT ![holder[t]] = IF err = NoErr THEN "idle" ELSE "closed"]
    /\ holder' = [holder EXCEPT ![t] = 0]

NextLife ==
    \/ DialConn
    \/ TakeIdleConn
    \/ ReturnConn

SpecLife == Init /\ [][NextLife]_vars

\* ------------------------------------- the transport dialling connections
\* A dial attempt to addr begins; with dual-stack dialling several attempts
\* of one request overlap.
AttemptStart == \E t \in Tracers, network \in Networks, addr \in Addrs :
    /\ steps < MaxConnectSteps
    /\ ConnectStart(t, network, addr)
    /\ UNCHANGED pool

\* A dial attempt to addr ends, with or without an error.
AttemptDone == \E t \in Tracers, network \in Networks, addr \in Addrs,
                  err \in {NoErr, "canceled"} :
    /\ steps < MaxConnectSteps
    /\ ConnectDone(t, network, addr, err)
    /\ UNCHANGED pool

NextConnect ==
    \/ AttemptStart
    \/ AttemptDone
    \/ Tick

\* An outgoing request starts with an empty RemoteAddr.
InitConnect == Init /\ \A t \in Tracers : ct[t].Request.RemoteAddr = ""

SpecConnect == InitConnect /\ [][NextConnect]_vars

\* ------------------------------------------------------------ properties
RECURSIVE SumOver(_, _, _)
SumOver(S, g, state) ==
    IF S = {} THEN 0
    ELSE LET a == CHOOSE x \in S : TRUE
         IN g[a][state] + SumOver(S \ {a}, g, state)

ActiveTotal == SumOver(AttrMaps, gauge, connectionStateActive)
IdleTotal == SumOver(AttrMaps, gauge, connectionStateIdle)

InUse == {c \in Conns : conn[c] = "active"}
InPool == {c \in Conns : conn[c] = "idle"}

AttrOf(t) == GetMetricAttributeMap(ct[t].Request)

\* the step is one call of entry point h
Called(h) == steps' = steps + 1 /\ last'.hook = h

\* C1: over the life of pooled connections the active gauge counts the
\* connections in use (+1 while a connection is in use, 0 while it is idle)
\* and is never negative.
C1_ActiveGaugeCountsInUse ==
    /\ ActiveTotal = Cardinality(InUse)
    /\ \A a \in AttrMaps : gauge[a][connectionStateActive] >= 0

\* C2: the idle gauge equals the number of connections sitting in the idle
\* pool, also after a connection is taken out of it, and is never negative.
C2_IdleGaugeCountsPool ==
    /\ IdleTotal = Cardinality(InPool)
    /\ \A a \in AttrMaps : gauge[a][connectionStateIdle] >= 0

\* C3: every hook call invokes the delegate's same hook exactly once with
\* the same arguments and completes, whatever the delegate is.
C3_DelegateInvokedOnce ==
    last.hook # "none" =>
        /\ ~panicked
        /\ last.dcount = 1
        /\ last.dhook = last.hook
        /\ last.dargs = last.args

\* C4: GotConn with Reused=false adds +1 to the active gauge of the
\* request's labels, -1 to their idle gauge iff WasIdle, and nothing else.
C4_GotConnNotReused ==
    [][(Called("GotConn") /\ ~last'.args.Reused) =>
        LET a == AttrOf(last'.t)
        IN /\ gauge' = [gauge EXCEPT
                          ![a][connectionStateActive] = @ + 1,
                          ![a][connectionStateIdle] =
                              IF last'.args.WasIdle THEN @ - 1 ELSE @]
           /\ hist' = hist
           /\ ct' = ct]_vars

C4_Witness ==
    /\ last.hook = "GotConn"
    /\ ~last.args.Reused
    /\ last.args.WasIdle
    /\ gauge[AttrOf(last.t)] =
          [s \in ConnectionStates |-> IF s = connectionStateActive THEN 1 ELSE -1]

\* C5: GotConn with Reused=true changes neither gauge, whatever WasIdle;
\* only the delegate is called.
C5_GotConnReused ==
    [][(Called("GotConn") /\ last'.args.Reused) =>
        /\ gauge' = gauge
        /\ hist' = hist
        /\ ct' = ct
        /\ last'.dcount = 1
        /\ last'.dargs = last'.args]_vars

C5_Witness ==
    /\ last.hook = "GotConn"
    /\ last.args.Reused
    /\ last.args.WasIdle
    /\ last.dcount = 1
    /\ steps = 2

\* C6: PutIdleConn(err) adds -1 to the active gauge, and +1 to the idle
\* gauge iff err is nil; GotConn(Reused=false, WasIdle=false) followed by
\* PutIdleConn(nil) on the same tracer ends at active 0, idle +1.
C6_PutIdleConn ==
    /\ [][Called("PutIdleConn") =>
            LET a == AttrOf(last'.t)
            IN gauge' = [gauge EXCEPT
                           ![a][connectionStateActive] = @ - 1,
                           ![a][connectionStateIdle] =
                               IF last'.args.err = NoErr THEN @ + 1 ELSE @]]_vars
    /\ []((steps = 2 /\ last.hook = "PutIdleConn" /\ last.args.err = NoErr) =>
            gauge[AttrOf(last.t)] =
               [s \in ConnectionStates |-> IF s = connectionStateActive THEN 0 ELSE 1])

C6_Witness ==
    /\ steps = 2
    /\ last.hook = "PutIdleConn"
    /\ last.args.err = NoErr
    /\ conn[1] = "idle"
    /\ IdleTotal = 1

\* C7: every ConnectDone records exactly one observation, whatever err is,
\* so the observations under a label set number the ConnectDone calls
\* received by the tracers of that label set.
C7_OneObservationPerConnectDone ==
    /\ [][Called("ConnectDone") =>
            LET a == AttrOf(last'.t)
            IN /\ Len(hist'[a]) = Len(hist[a]) + 1
               /\ SubSeq(hist'[a], 1, Len(hist[a])) = hist[a]
               /\ \A b \in AttrMaps \ {a} : hist'[b] = hist[b]]_vars
    /\ [](\A a \in AttrMaps :
            Len(hist[a]) = SumOver({t \in Tracers : AttrOf(t) = a},
                                   [t \in Tracers |-> [n |-> nDone[t]]], "n"))

C7_Witness ==
    /\ last.hook = "ConnectDone"
    /\ last.args.err = "canceled"
    /\ nDone[last.t] = 2
    /\ Len(hist[AttrOf(last.t)]) = 2

\* C8: the request's RemoteAddr is written only by ConnectStart and only
\* while it is empty: once non-empty it never changes.
C8_RemoteAddrSetOnce ==
    [][\A t \in Tracers :
        LET old == ct[t].Request.RemoteAddr
            new == ct'[t].Request.RemoteAddr
        IN /\ old # "" => new = old
           /\ new # old => /\ Called("ConnectStart")
                           /\ last'.t = t
                           /\ new = last'.args.addr
           /\ (Called("ConnectStart") /\ last'.t = t /\ old = "") =>
                 new = last'.args.addr]_vars

C8_Witness ==
    /\ steps = 2
    /\ last.hook = "ConnectStart"
    /\ ct[last.t].Request.RemoteAddr \in Addrs
    /\ ct[last.t].Request.RemoteAddr # last.args.addr

\* C9: Got1xxResponse returns what the delegate's Got1xxResponse returns
\* for the same arguments and updates no metric.
C9_Got1xxResponseVerbatim ==
    /\ [](last.hook = "Got1xxResponse" =>
            /\ last.dcount = 1
            /\ last.dhook = "Got1xxResponse"
            /\ last.dargs = last.args
            /\ last.ret = last.dret)
    /\ [][Called("Got1xxResponse") => gauge' = gauge /\ hist' = hist]_vars

C9_Witness ==
    /\ last.hook = "Got1xxResponse"
    /\ last.dret = "refused"
    /\ last.ret = "refused"

\* C10: in GotConn, PutIdleConn, ConnectStart and ConnectDone the delegate
\* is called after the bookkeeping: it sees the state the hook leaves.
BookkeepingHooks == {"GotConn", "PutIdleConn", "ConnectStart", "ConnectDone"}

C10_DelegateSeesBookkeeping ==
    (last.hook \in BookkeepingHooks /\ last.dcount = 1) =>
        last.seen = Cur(last.t)

C10_Witness ==
    /\ last.hook = "GotConn"
    /\ ~last.args.Reused
    /\ last.dcount = 1
    /\ last.seen.gauge[AttrOf(last.t)][connectionStateActive] = 1

\* C11: with a nil gauge or histogram handle GotConn, PutIdleConn and
\* ConnectDone skip the metric update, do not fail, and still call the
\* delegate's hook exactly once.
C11_NilInstrumentIsNoOp ==
    last.hook \in {"GotConn", "PutIdleConn", "ConnectDone"} =>
        /\ ~panicked
        /\ last.dcount = 1
        /\ last.dhook = last.hook
        /\ last.dargs = last.args

\* any hook call made by tracer t in this step
CalledBy(t) == steps' = steps + 1 /\ last'.t = t

RECURSIVE SumTally(_, _)
SumTally(S, f) ==
    IF S = {} THEN 0
    ELSE LET t == CHOOSE x \in S : TRUE
         IN f[t] + SumTally(S \ {t}, f)

TracersOf(a) == {t \in Tracers : AttrOf(t) = a}

\* what the calls received by tracer t add up to when nothing else runs
SoloActive(t) ==
    tally[t]["new"] + tally[t]["newIdle"] - tally[t]["putOk"] - tally[t]["putFail"]

SoloIdle(t) == tally[t]["putOk"] - tally[t]["newIdle"]

\* C12: for tracers with different label sets, in every interleaving of
\* their hook calls, a call of one tracer changes no value under another's
\* labels, and the values under a tracer's labels are what its own calls
\* add up to: no update is lost.
C12_NoCrossTalk ==
    /\ [][\A t \in Tracers : CalledBy(t) =>
            /\ \A a \in AttrMaps \ {AttrOf(t)} :
                  gauge'[a] = gauge[a] /\ hist'[a] = hist[a]
            /\ \A u \in Tracers \ {t} : ct'[u] = ct[u]]_vars
    /\ [](\A t \in Tracers : (\A u \in Tracers \ {t} : AttrOf(u) # AttrOf(t)) =>
            /\ gauge[AttrOf(t)][connectionStateActive] = SoloActive(t)
            /\ gauge[AttrOf(t)][connectionStateIdle] = SoloIdle(t)
            /\ Len(hist[AttrOf(t)]) = nDone[t])

C12_Witness ==
    /\ AttrOf(1) # AttrOf(2)
    /\ steps = 2
    /\ tally[1]["new"] = 1
    /\ tally[2]["putOk"] = 1
    /\ last.t = 1
    /\ gauge[AttrOf(1)] =
          [s \in ConnectionStates |-> IF s = connectionStateActive THEN 1 ELSE 0]
    /\ gauge[AttrOf(2)] =
          [s \in ConnectionStates |-> IF s = connectionStateActive THEN -1 ELSE 1]

\* C13: the labels derived from a tracer's request never change, also when
\* ConnectStart fills the request's RemoteAddr, and every update of the
\* tracer lands on the series of those labels.
C13_LabelsStable ==
    [][\A t \in Tracers :
        /\ GetMetricAttributeMap(ct'[t].Request) = GetMetricAttributeMap(ct[t].Request)
        /\ CalledBy(t) =>
              \A a \in AttrMaps :
                 (gauge'[a] # gauge[a] \/ hist'[a] # hist[a]) =>
                    /\ a = GetMetricAttributeMap(ct[t].Request)
                    /\ a = GetMetricAttributeMap(ct'[t].Request)]_vars

C13_Witness ==
    /\ steps = 2
    /\ last.hook = "PutIdleConn"
    /\ ct[last.t].Request.RemoteAddr \in Addrs
    /\ ct[last.t].ConnectStartTime # NilTime
    /\ gauge[AttrOf(last.t)][connectionStateActive] = -1

\* the time of the most recent ConnectStart received by tracer t
MostRecentStart(t) ==
    LET times == {startAt[t][a] : a \in Addrs}
    IN CHOOSE m \in times : \A x \in times : x <= m

ForwardingHooks == Hooks \ {"GotConn", "PutIdleConn", "ConnectStart", "ConnectDone"}

C15_ForwardingOnly ==
    [][(steps' = steps + 1 /\ last'.hook \in ForwardingHooks) =>
        /\ gauge' = gauge
        /\ hist' = hist
        /\ ct' = ct
        /\ last'.dcount = 1]_vars

C15_Witness ==
    /\ steps = 2
    /\ last.hook = "WroteRequest"
    /\ last.dcount = 1
    /\ \A t \in Tracers :
          /\ nDone[t] = 0
          /\ \A k \in TallyClasses : tally[t][k] = 0
          /\ ct[t].ConnectStartTime = NilTime

\* C16: the sum of the active and idle gauge of a label set rises by 1 on
\* GotConn(Reused=false, WasIdle=false), falls by 1 on PutIdleConn(err),
\* err non-nil, and changes on no other call; it equals the brand-new
\* GotConn calls minus the failed PutIdleConn calls.
GaugeTotal(g, a) == g[a][connectionStateActive] + g[a][connectionStateIdle]

C16_GaugeTotal ==
    /\ [][\A t \in Tracers : CalledBy(t) =>
            /\ GaugeTotal(gauge', AttrOf(t)) - GaugeTotal(gauge, AttrOf(t)) =
                  CASE TallyClass(last'.hook, last'.args) = "new" -> 1
                    [] TallyClass(last'.hook, last'.args) = "putFail" -> -1
                    [] OTHER -> 0
            /\ \A a \in AttrMaps \ {AttrOf(t)} :
                  GaugeTotal(gauge', a) = GaugeTotal(gauge, a)]_vars
    /\ [](\A a \in AttrMaps :
            GaugeTotal(gauge, a) =
               SumTally(TracersOf(a),
                        [t \in Tracers |-> tally[t]["new"] - tally[t]["putFail"]]))

C16_Witness ==
    /\ steps = 2
    /\ last.hook = "PutIdleConn"
    /\ last.args.err # NoErr
    /\ tally[last.t]["newIdle"] = 1
    /\ GaugeTotal(gauge, AttrOf(last.t)) = -1

\* C17: only PutIdleConn lowers the active gauge, and it lowers it by 1 on
\* every call; a tracer that got a reused connection and then receives
\* PutIdleConn has taken the active gauge down by 1.
C17_OnlyPutIdleConnLowers ==
    /\ [][\A a \in AttrMaps :
            gauge'[a][connectionStateActive] < gauge[a][connectionStateActive] =>
               /\ Called("PutIdleConn")
               /\ a = AttrOf(last'.t)]_vars
    /\ [][Called("PutIdleConn") =>
            gauge'[AttrOf(last'.t)][connectionStateActive] =
               gauge[AttrOf(last'.t)][connectionStateActive] - 1]_vars
    /\ [](\A a \in AttrMaps :
            gauge[a][connectionStateActive] =
               SumTally(TracersOf(a), [t \in Tracers |-> SoloActive(t)]))

C17_Witness ==
    /\ steps = 2
    /\ last.hook = "PutIdleConn"
    /\ tally[last.t]["reused"] = 1
    /\ tally[last.t]["new"] = 0
    /\ tally[last.t]["newIdle"] = 0
    /\ gauge[AttrOf(last.t)][connectionStateActive] = -1

\* C18: ConnectDone never clears the connect-start timestamp and does not
\* test it: with the timestamp unset it still records one observation and
\* calls the delegate, and a second ConnectDone after one ConnectStart
\* records a second observation measured from the same start.
C18_ConnectDoneKeepsTimestamp ==
    [][Called("ConnectDone") =>
        LET t == last'.t
            a == AttrOf(last'.t)
        IN /\ ct'[t].ConnectStartTime = ct[t].ConnectStartTime
           /\ Len(hist'[a]) = Len(hist[a]) + 1
           /\ last'.dcount = 1
           /\ last'.dargs = last'.args
           /\ ~panicked'
           /\ ct[t].ConnectStartTime # NilTime =>
                 hist'[a][Len(hist'[a])] =
                    Milliseconds(now - ct[t].ConnectStartTime)]_vars

C18_Witness ==
    /\ AttrOf(1) # AttrOf(2)
    /\ ct[1].ConnectStartTime = NilTime
    /\ nDone[1] = 1
    /\ Len(hist[AttrOf(1)]) = 1
    /\ ct[2].ConnectStartTime = 0
    /\ nDone[2] = 2
    /\ hist[AttrOf(2)] = <<0, 1>>
    /\ last.hook = "ConnectDone"
    /\ last.t = 2

====
